---- MODULE Spec2Model ----
(***************************************************************************)
(* Model of src/trial.py: a LangGraph pipeline of five nodes               *)
(*   process_input -> process_pdf -> summarize_page -> search_summaries    *)
(*   -> verify_results                                                     *)
(* threaded through one State dictionary.  The language model (llm) and    *)
(* the PDF tool are external: every answer they can give is a              *)
(* nondeterministic choice.  summarize_page and verify_results fan out one *)
(* coroutine per item with asyncio.gather; the coroutines complete in any  *)
(* order.                                                                  *)
(***************************************************************************)
EXTENDS Integers, Sequences, FiniteSets, TLC

\* Bounds of the model.
MaxPages == 2
MaxResults == 2

\* "extract the top 10 relevant points" (the search prompt).
TopK == 10

VARIABLES
    state,      \* the State dictionary (a function from key to value)
    pc,         \* the node that runs next, is running, or failed; "END" after the last
    awaiting,   \* TRUE while the node at pc is suspended in an await
    outcome,    \* "running", "success" (END reached) or "aborted" (a node raised)
    error,      \* the message of the exception that aborted the run
    tasks,      \* the coroutines of the node started last, one per llm.ainvoke or gathered item
    gathers,    \* the lists asyncio.gather has returned, in order
    llm_calls,  \* per node, the number of llm.ainvoke calls issued
    pdf_calls,  \* the number of pdf_tool.invoke calls issued
    started,    \* the nodes that have started, in order
    order,      \* the indices of tasks in the order in which the coroutines finished
    writes      \* per State key, the nodes whose update wrote it, in order

vars == <<state, pc, awaiting, outcome, error, tasks, gathers, llm_calls, pdf_calls,
          started, order, writes>>

----------------------------------------------------------------------------
\* Values.

None == [none |-> TRUE]

Nodes == {"process_input", "process_pdf", "summarize_page", "search_summaries",
          "verify_results"}

Keys == {"messages", "pdf_path", "query", "extracted_pages", "summarized_pages",
         "search_results", "verified_results"}

\* The line the user typed (anything but a quit word reaches the graph; the
\* nodes hand it to the llm and never look into it).
UserInputs == {"report.pdf revenue"}

\* state.get(key, default)
get(s, key, default) == IF key \in DOMAIN s THEN s[key] ELSE default

\* Mutant of Edge: the edge out of summarize_page leads to verify_results.
EdgeSkipsSearch(n) ==
    CASE n = "START" -> "process_input"
      [] n = "process_input" -> "process_pdf"
      [] n = "process_pdf" -> "summarize_page"
      [] n = "summarize_page" -> "verify_results"
      [] n = "search_summaries" -> "verify_results"
      [] n = "verify_results" -> "END"

\* The edges of the graph: the node that follows n.
Edge(n) ==
    CASE n = "START" -> "process_input"
      [] n = "process_input" -> "process_pdf"
      [] n = "process_pdf" -> "summarize_page"
      [] n = "summarize_page" -> "search_summaries"
      [] n = "search_summaries" -> "verify_results"
      [] n = "verify_results" -> "END"

\* The State the graph is started with.
initial_state(user_input) ==
    [messages |-> <<[role |-> "user", content |-> user_input]>>,
     pdf_path |-> "",
     query |-> "",
     extracted_pages |-> <<>>,
     summarized_pages |-> <<>>]

\* Mutant of apply_update: messages has no reducer and is overwritten too.
apply_update_overwrite(s, upd) ==
    [k \in DOMAIN s \cup DOMAIN upd |-> IF k \notin DOMAIN upd THEN s[k] ELSE upd[k]]

\* The channel reducers: messages is Annotated with add_messages (append),
\* every other key is overwritten.
apply_update(s, upd) ==
    [k \in DOMAIN s \cup DOMAIN upd |->
        IF k \notin DOMAIN upd THEN s[k]
        ELSE IF k = "messages" /\ k \in DOMAIN s THEN s[k] \o upd[k]
        ELSE upd[k]]

----------------------------------------------------------------------------
\* The external collaborators' answers.

\* llm.ainvoke raises, or returns text that the parser rejects, or text that
\* parses to the payload d.
Raised == [kind |-> "raise", data |-> None]
Garbage == [kind |-> "garbage", data |-> None]
Json(d) == [kind |-> "json", data |-> d]

\* PydanticOutputParser.parse
parse(resp) ==
    IF resp.kind = "json" THEN [ok |-> TRUE, value |-> resp.data]
    ELSE [ok |-> FALSE, value |-> None]

InputResponses ==
    {Raised, Garbage} \cup
    {Json(d) : d \in [pdf_path : {"", "report.pdf"}, query : {"", "revenue"}]}

PageList(n) ==
    [i \in 1..n |-> [page_number |-> i, content |-> "text of page " \o ToString(i)]]

\* pdf_tool.invoke raises, returns a dictionary without "pages", or returns pages.
PdfResults ==
    {[raised |-> TRUE], [raised |-> FALSE, error |-> "cannot read"]} \cup
    {[raised |-> FALSE, pages |-> PageList(n)] : n \in 0..MaxPages}

SummaryResponses(page_data) ==
    {Raised, Garbage} \cup
    {Json(d) : d \in [page_number : {page_data.page_number, page_data.page_number + 1},
                      heading_sentence : {"heading"},
                      key_points : {<<"k1", "k2">>, <<"k1", "k2", "k3">>}]}

SearchResultOf(i, p) == [content |-> "claim " \o ToString(i), claimed_page |-> p]

\* The lists the search answer can hold: every list of at most MaxResults
\* results claiming pages 1..MaxPages+1, and one list longer than the prompt's
\* "top 10" (its results claim page MaxPages+1, which no document has).
SearchLists ==
    UNION {{[i \in 1..n |-> SearchResultOf(i, f[i])] : f \in [1..n -> 1..(MaxPages + 1)]}
           : n \in 0..MaxResults}
    \cup {[i \in 1..(TopK + 1) |-> SearchResultOf(i, MaxPages + 1)]}

SearchResponses == {Raised, Garbage} \cup {Json([results |-> l]) : l \in SearchLists}

VerifyResponses ==
    {Raised, Garbage} \cup
    {Json(d) : d \in [valid : BOOLEAN, explanation : {"because"}]}

----------------------------------------------------------------------------
\* The nodes' computations.

Ok(upd) == [ok |-> TRUE, error |-> "", update |-> upd]
Fail(msg) == [ok |-> FALSE, error |-> msg, update |-> None]

\* process_input after the await: parse the answer.
process_input_result(resp) ==
    IF resp.kind = "raise" THEN Fail("llm.ainvoke raised")
    ELSE LET p == parse(resp) IN
         IF p.ok THEN Ok([pdf_path |-> p.value.pdf_path, query |-> p.value.query])
         ELSE Fail("Failed to extract PDF path and query.")

\* Mutant of pdf_invoked: the path is not checked.
pdf_invoked_unchecked(s) == TRUE

\* process_pdf: the tool is invoked only for a non-empty path.
pdf_invoked(s) == get(s, "pdf_path", "") # ""

process_pdf_result(s, pdf_result) ==
    IF ~pdf_invoked(s) THEN Fail("PDF path not found.")
    ELSE IF pdf_result.raised THEN Fail("pdf_tool.invoke raised")
    ELSE LET pages == get(pdf_result, "pages", <<>>) IN
         Ok([extracted_pages |->
                [i \in 1..Len(pages) |->
                    [page_number |-> pages[i].page_number, content |-> pages[i].content]]])

\* One coroutine of a gather: it raised, or it returned value.
Returned(v) == [raised |-> FALSE, error |-> "", value |-> v]
Raise(msg) == [raised |-> TRUE, error |-> msg, value |-> None]

\* Mutant of summarize: a page whose answer does not parse gets an empty summary.
summarize_tolerant(page_data, resp) ==
    IF resp.kind = "raise" THEN Raise("llm.ainvoke raised")
    ELSE LET p == parse(resp) IN
         IF p.ok THEN Returned(p.value)
         ELSE Returned([page_number |-> page_data.page_number, heading_sentence |-> "",
                        key_points |-> <<"", "", "">>])

\* summarize_page.summarize after the await.
summarize(page_data, resp) ==
    IF resp.kind = "raise" THEN Raise("llm.ainvoke raised")
    ELSE LET p == parse(resp) IN
         IF p.ok THEN Returned(p.value) ELSE Raise("OutputParserException")

\* summarize_page after the gather.
summarized_pages_of(summaries) ==
    [i \in 1..Len(summaries) |->
        [page_number |-> summaries[i].page_number,
         heading_sentence |-> summaries[i].heading_sentence,
         key_points |-> summaries[i].key_points]]

\* Mutant of search_guard: the summaries are not checked.
search_guard_no_summaries(s) ==
    LET query == get(s, "query", "")
        summaries == get(s, "summarized_pages", <<>>)
    IN  IF query = "" THEN Fail("Query not found.")
        ELSE IF \E i \in 1..Len(summaries) : Len(summaries[i].key_points) < 3
             THEN Fail("IndexError: list index out of range")
        ELSE Ok(None)

\* Mutant of search_guard: the join takes the key points there are.
search_guard_any_points(s) ==
    LET query == get(s, "query", "")
        summaries == get(s, "summarized_pages", <<>>)
    IN  IF query = "" THEN Fail("Query not found.")
        ELSE IF summaries = <<>> THEN Fail("Summaries not found.")
        ELSE Ok(None)

\* search_summaries before the await: the guards and the join over key_points[0..2].
search_guard(s) ==
    LET query == get(s, "query", "")
        summaries == get(s, "summarized_pages", <<>>)
    IN  IF query = "" THEN Fail("Query not found.")
        ELSE IF summaries = <<>> THEN Fail("Summaries not found.")
        ELSE IF \E i \in 1..Len(summaries) : Len(summaries[i].key_points) < 3
             THEN Fail("IndexError: list index out of range")
        ELSE Ok(None)

\* Mutant of search_result: an answer that does not parse counts as no results.
search_result_lenient(resp) ==
    IF resp.kind = "raise" THEN Fail("llm.ainvoke raised")
    ELSE LET p == parse(resp) IN
         IF p.ok THEN Ok([search_results |-> p.value.results])
         ELSE Ok([search_results |-> <<>>])

\* search_summaries after the await.
search_result(resp) ==
    IF resp.kind = "raise" THEN Fail("llm.ainvoke raised")
    ELSE LET p == parse(resp) IN
         IF p.ok THEN Ok([search_results |-> p.value.results])
         ELSE Fail("Failed to parse search results.")

\* Mutant of verify_guard: an empty search_results is let through.
verify_guard_allows_empty(s) ==
    IF get(s, "extracted_pages", <<>>) = <<>>
    THEN Fail("No extracted pages to verify against.")
    ELSE Ok(None)

\* verify_results before the gather.
verify_guard(s) ==
    IF get(s, "search_results", <<>>) = <<>> THEN Fail("No search results to verify.")
    ELSE IF get(s, "extracted_pages", <<>>) = <<>>
         THEN Fail("No extracted pages to verify against.")
    ELSE Ok(None)

\* next((page for page in extracted_pages if page["page_number"] == claimed_page), None)
matching_page(extracted_pages, claimed_page) ==
    LET hits == {i \in 1..Len(extracted_pages) :
                    extracted_pages[i].page_number = claimed_page}
    IN  IF hits = {} THEN None
        ELSE extracted_pages[CHOOSE i \in hits : \A j \in hits : i <= j]

\* Mutant of verify: the valid flag of the parsed answer is not looked at.
verify_ignores_valid(result, resp) ==
    IF resp.kind = "raise" THEN Raise("llm.ainvoke raised")
    ELSE LET p == parse(resp) IN
         IF p.ok
         THEN Returned([content |-> result.content,
                        source |-> "Page " \o ToString(result.claimed_page),
                        explanation |-> p.value.explanation])
         ELSE Returned(None)

\* Mutant of verify: the parse is outside the try block, as in summarize.
verify_parse_raises(result, resp) ==
    IF resp.kind = "raise" THEN Raise("llm.ainvoke raised")
    ELSE LET p == parse(resp) IN
         IF ~p.ok THEN Raise("OutputParserException")
         ELSE IF p.value.valid
         THEN Returned([content |-> result.content,
                        source |-> "Page " \o ToString(result.claimed_page),
                        explanation |-> p.value.explanation])
         ELSE Returned(None)

\* verify_results.verify after the await.
verify(result, resp) ==
    IF resp.kind = "raise" THEN Raise("llm.ainvoke raised")
    ELSE LET p == parse(resp) IN
         IF p.ok /\ p.value.valid
         THEN Returned([content |-> result.content,
                        source |-> "Page " \o ToString(result.claimed_page),
                        explanation |-> p.value.explanation])
         ELSE Returned(None)

\* [point for point in all_verified_points if point]
IsPoint(point) == point # None
verified_of(all_verified_points) == SelectSeq(all_verified_points, IsPoint)

RECURSIVE join(_, _)
join(sep, strs) ==
    IF strs = <<>> THEN ""
    ELSE IF Len(strs) = 1 THEN strs[1]
    ELSE strs[1] \o sep \o join(sep, Tail(strs))

\* Mutant of format_result: the source is left out.
format_result_bare(result) == result.content

format_result(result) == result.content \o " (Source: " \o result.source \o ")"

\* Mutant of formatted_results: an empty list is shown as a placeholder.
formatted_results_placeholder(verified_results) ==
    IF verified_results = <<>> THEN "(none)"
    ELSE join("\n\n", [i \in 1..Len(verified_results) |-> format_result(verified_results[i])])

formatted_results(verified_results) ==
    join("\n\n", [i \in 1..Len(verified_results) |-> format_result(verified_results[i])])

verify_update(all_verified_points) ==
    LET verified_results == verified_of(all_verified_points) IN
    [messages |-> <<[role |-> "assistant",
                     content |-> "Verified Results:\n\n" \o formatted_results(verified_results)]>>,
     verified_results |-> verified_results]

----------------------------------------------------------------------------
\* Tasks.

\* resp is the answer the coroutine's llm.ainvoke got (NoAnswer while it has none).
NoAnswer == [kind |-> "none", data |-> None]
Pending == [st |-> "pending", called |-> TRUE, resp |-> NoAnswer, val |-> None]
Skipped == [st |-> "returned", called |-> FALSE, resp |-> NoAnswer, val |-> None]
Done(r, resp) ==
    [st |-> IF r.raised THEN "raised" ELSE "returned", called |-> TRUE, resp |-> resp,
     val |-> r.value]

Called(ts) == {i \in 1..Len(ts) : ts[i].called}

\* Mutant of AllReturned: the gather counts only the coroutines that asked the llm.
AllAnswered == \A i \in 1..Len(tasks) : tasks[i].st = "returned" /\ tasks[i].called

\* The gather is done when every coroutine has returned.
AllReturned == \A i \in 1..Len(tasks) : tasks[i].st = "returned"

\* Mutant of Slots: the results are collected as the coroutines finish.
SlotsAsCompleted == [j \in 1..Len(order) |-> tasks[order[j]].val]

\* asyncio.gather returns the results in the order of its arguments.
Slots == [i \in 1..Len(tasks) |-> tasks[i].val]

\* The coroutines of ts that return before any await, in the order they were started.
finished_at_start(ts) ==
    LET NotCalled(i) == ~ts[i].called
    IN  SelectSeq([i \in 1..Len(ts) |-> i], NotCalled)

----------------------------------------------------------------------------
\* Steps shared by the nodes.

Init ==
    /\ state \in {initial_state(u) : u \in UserInputs}
    /\ pc = Edge("START")
    /\ awaiting = FALSE
    /\ outcome = "running"
    /\ error = ""
    /\ tasks = <<>>
    /\ gathers = <<>>
    /\ llm_calls = [n \in Nodes |-> 0]
    /\ pdf_calls = 0
    /\ started = <<>>
    /\ order = <<>>
    /\ writes = [k \in Keys |-> <<>>]

\* The node at pc raises: the exception leaves graph.astream and the run ends.
Abort(msg) ==
    /\ outcome' = "aborted"
    /\ error' = msg
    /\ awaiting' = FALSE
    /\ UNCHANGED <<state, pc, writes>>

\* The node at pc returns upd: the graph applies it and moves along the edge.
Commit(upd) ==
    /\ state' = apply_update(state, upd)
    /\ writes' = [k \in Keys |-> IF k \in DOMAIN upd THEN Append(writes[k], pc) ELSE writes[k]]
    /\ pc' = Edge(pc)
    /\ outcome' = IF Edge(pc) = "END" THEN "success" ELSE outcome
    /\ awaiting' = FALSE
    /\ error' = error

Ready(n) == pc = n /\ outcome = "running" /\ ~awaiting
\* The node at pc has started (tasks holds its coroutines), whether or not it has raised.
Entered(n) == pc = n /\ started # <<>> /\ started[Len(started)] = n
Waiting(n) == pc = n /\ outcome = "running" /\ awaiting

----------------------------------------------------------------------------
\* process_input

process_input_start ==
    /\ Ready("process_input")
    /\ started' = Append(started, pc)
    /\ order' = <<>>
    /\ IF state.messages = <<>>
       THEN /\ Abort("No input provided.")
            /\ UNCHANGED <<tasks, llm_calls>>
       ELSE /\ awaiting' = TRUE
            /\ tasks' = <<Pending>>
            /\ llm_calls' = [llm_calls EXCEPT ![pc] = @ + 1]
            /\ UNCHANGED <<state, pc, outcome, error, writes>>
    /\ UNCHANGED <<gathers, pdf_calls>>

process_input_return ==
    \E resp \in InputResponses :
        LET r == process_input_result(resp) IN
        /\ Waiting("process_input")
        /\ tasks' = <<Done(Returned(None), resp)>>
        /\ order' = <<1>>
        /\ IF r.ok THEN Commit(r.update) ELSE Abort(r.error)
        /\ UNCHANGED <<gathers, llm_calls, pdf_calls, started>>

----------------------------------------------------------------------------
\* process_pdf (synchronous)

process_pdf ==
    \E pdf_result \in PdfResults :
        LET r == process_pdf_result(state, pdf_result) IN
        /\ Ready("process_pdf")
        /\ started' = Append(started, pc)
        /\ pdf_calls' = IF pdf_invoked(state) THEN pdf_calls + 1 ELSE pdf_calls
        /\ tasks' = <<>>
        /\ order' = <<>>
        /\ IF r.ok THEN Commit(r.update) ELSE Abort(r.error)
        /\ UNCHANGED <<gathers, llm_calls>>

----------------------------------------------------------------------------
\* summarize_page

summarize_start ==
    /\ Ready("summarize_page")
    /\ started' = Append(started, pc)
    /\ order' = <<>>
    /\ awaiting' = TRUE
    /\ tasks' = [i \in 1..Len(state.extracted_pages) |-> Pending]
    /\ llm_calls' = [llm_calls EXCEPT ![pc] = @ + Len(state.extracted_pages)]
    /\ UNCHANGED <<state, pc, outcome, error, writes, gathers, pdf_calls>>

\* One summarize coroutine gets its answer.  The first to raise makes the
\* gather raise; the siblings stay pending.
summarize_return ==
    /\ Entered("summarize_page")
    /\ \E i \in 1..Len(tasks) :
       \E resp \in SummaryResponses(state.extracted_pages[i]) :
        LET r == summarize(state.extracted_pages[i], resp) IN
        /\ tasks[i].st = "pending"
        /\ tasks' = [tasks EXCEPT ![i] = Done(r, resp)]
        /\ order' = Append(order, i)
        /\ IF r.raised /\ outcome = "running"
           THEN Abort(r.error)
           ELSE UNCHANGED <<state, pc, awaiting, outcome, error, writes>>
        /\ UNCHANGED <<gathers, llm_calls, pdf_calls, started>>

summarize_gather ==
    /\ Waiting("summarize_page")
    /\ AllReturned
    /\ gathers' = Append(gathers, [node |-> pc, slots |-> Slots])
    /\ Commit([summarized_pages |-> summarized_pages_of(Slots)])
    /\ UNCHANGED <<tasks, llm_calls, pdf_calls, started, order>>

----------------------------------------------------------------------------
\* search_summaries

search_start ==
    LET g == search_guard(state) IN
    /\ Ready("search_summaries")
    /\ started' = Append(started, pc)
    /\ order' = <<>>
    /\ IF g.ok
       THEN /\ awaiting' = TRUE
            /\ tasks' = <<Pending>>
            /\ llm_calls' = [llm_calls EXCEPT ![pc] = @ + 1]
            /\ UNCHANGED <<state, pc, outcome, error, writes>>
       ELSE /\ Abort(g.error)
            /\ tasks' = <<>>
            /\ UNCHANGED llm_calls
    /\ UNCHANGED <<gathers, pdf_calls>>

\* Mutant of search_return: an answer that does not parse is asked for once more.
search_return_retries ==
    \E resp \in SearchResponses :
        LET r == search_result(resp) IN
        /\ Waiting("search_summaries")
        /\ IF resp.kind = "garbage" /\ llm_calls[pc] < 2
           THEN /\ tasks' = <<Pending>>
                /\ order' = <<>>
                /\ llm_calls' = [llm_calls EXCEPT ![pc] = @ + 1]
                /\ UNCHANGED <<state, pc, awaiting, outcome, error, writes>>
           ELSE /\ tasks' = <<Done(Returned(None), resp)>>
                /\ order' = <<1>>
                /\ IF r.ok THEN Commit(r.update) ELSE Abort(r.error)
                /\ UNCHANGED llm_calls
        /\ UNCHANGED <<gathers, pdf_calls, started>>

search_return ==
    \E resp \in SearchResponses :
        LET r == search_result(resp) IN
        /\ Waiting("search_summaries")
        /\ tasks' = <<Done(Returned(None), resp)>>
        /\ order' = <<1>>
        /\ IF r.ok THEN Commit(r.update) ELSE Abort(r.error)
        /\ UNCHANGED <<gathers, llm_calls, pdf_calls, started>>

----------------------------------------------------------------------------
\* verify_results

\* Mutant of verify_tasks: the llm is asked about every result.
verify_tasks_all_called(search_results, extracted_pages) ==
    [i \in 1..Len(search_results) |-> Pending]

\* The coroutine of a result without a matching page returns None before
\* any await; the others issue their llm.ainvoke.
verify_tasks(search_results, extracted_pages) ==
    [i \in 1..Len(search_results) |->
        IF matching_page(extracted_pages, search_results[i].claimed_page) = None
        THEN Skipped ELSE Pending]

verify_start ==
    LET g == verify_guard(state)
        ts == verify_tasks(get(state, "search_results", <<>>),
                           get(state, "extracted_pages", <<>>))
    IN
    /\ Ready("verify_results")
    /\ started' = Append(started, pc)
    /\ IF g.ok
       THEN /\ awaiting' = TRUE
            /\ tasks' = ts
            /\ order' = finished_at_start(ts)
            /\ llm_calls' = [llm_calls EXCEPT ![pc] = @ + Cardinality(Called(ts))]
            /\ UNCHANGED <<state, pc, outcome, error, writes>>
       ELSE /\ Abort(g.error)
            /\ tasks' = <<>>
            /\ order' = <<>>
            /\ UNCHANGED llm_calls
    /\ UNCHANGED <<gathers, pdf_calls>>

verify_return ==
    /\ Entered("verify_results")
    /\ \E i \in 1..Len(tasks) :
       \E resp \in VerifyResponses :
        LET r == verify(state.search_results[i], resp) IN
        /\ tasks[i].st = "pending"
        /\ tasks' = [tasks EXCEPT ![i] = Done(r, resp)]
        /\ order' = Append(order, i)
        /\ IF r.raised /\ outcome = "running"
           THEN Abort(r.error)
           ELSE UNCHANGED <<state, pc, awaiting, outcome, error, writes>>
        /\ UNCHANGED <<gathers, llm_calls, pdf_calls, started>>

verify_gather ==
    /\ Waiting("verify_results")
    /\ AllReturned
    /\ gathers' = Append(gathers, [node |-> pc, slots |-> Slots])
    /\ Commit(verify_update(Slots))
    /\ UNCHANGED <<tasks, llm_calls, pdf_calls, started, order>>

----------------------------------------------------------------------------
\* Mutant of cancel_pending: pending coroutines are cancelled while the node still waits.
cancel_pending_any ==
    /\ \E i \in 1..Len(tasks) : tasks[i].st = "pending"
    /\ tasks' = [i \in 1..Len(tasks) |->
                    IF tasks[i].st = "pending" THEN [tasks[i] EXCEPT !.st = "cancelled"]
                    ELSE tasks[i]]
    /\ UNCHANGED <<state, pc, awaiting, outcome, error, gathers, llm_calls, pdf_calls,
                   started, order, writes>>

\* asyncio.run, leaving with the exception, cancels the coroutines still pending.

cancel_pending ==
    /\ outcome = "aborted"
    /\ \E i \in 1..Len(tasks) : tasks[i].st = "pending"
    /\ tasks' = [i \in 1..Len(tasks) |->
                    IF tasks[i].st = "pending" THEN [tasks[i] EXCEPT !.st = "cancelled"]
                    ELSE tasks[i]]
    /\ UNCHANGED <<state, pc, awaiting, outcome, error, gathers, llm_calls, pdf_calls,
                   started, order, writes>>

Next ==
    \/ process_input_start
    \/ process_input_return
    \/ process_pdf
    \/ summarize_start
    \/ summarize_return
    \/ summarize_gather
    \/ search_start
    \/ search_return
    \/ verify_start
    \/ verify_return
    \/ verify_gather
    \/ cancel_pending

Spec == Init /\ [][Next]_vars

\* The graph started directly (graph.astream) on an input that holds no message,
\* besides the starts astream_graph_updates makes.
no_message_state == [initial_state("") EXCEPT !.messages = <<>>]

InitInvoke ==
    /\ state \in {initial_state(u) : u \in UserInputs} \cup {no_message_state}
    /\ pc = Edge("START")
    /\ awaiting = FALSE
    /\ outcome = "running"
    /\ error = ""
    /\ tasks = <<>>
    /\ gathers = <<>>
    /\ llm_calls = [n \in Nodes |-> 0]
    /\ pdf_calls = 0
    /\ started = <<>>
    /\ order = <<>>
    /\ writes = [k \in Keys |-> <<>>]

SpecInvoke == InitInvoke /\ [][Next]_vars

\* The event loop keeps running what is ready, and every call of the llm and
\* of the PDF tool returns or raises in the end: a step that can be taken is
\* not put off for ever.
LiveSpec == Spec /\ WF_vars(Next)

----------------------------------------------------------------------------
\* Properties.

Chain == <<"process_input", "process_pdf", "summarize_page", "search_summaries",
           "verify_results">>

\* tasks holds the coroutines of node n: n is the node that started last.
Batch(n) == started # <<>> /\ started[Len(started)] = n

HasStarted(n) == \E i \in 1..Len(started) : started[i] = n
\* Node n returned its update (every node's update writes at least one key).
Completed(n) == \E k \in Keys : \E i \in 1..Len(writes[k]) : writes[k][i] = n

PageNumbers ==
    {state.extracted_pages[i].page_number : i \in 1..Len(state.extracted_pages)}

\* The verification of search result i was answered with text that parsed to valid == true.
AnsweredValid(i) ==
    /\ tasks[i].called
    /\ tasks[i].resp.kind = "json"
    /\ tasks[i].resp.data.valid

\* C1: in the terminal success state verified_results is a sub-collection of
\* search_results: every verified record carries the content and claimed page
\* of a search result whose page was extracted and whose verification answer
\* parsed with valid == true; no other search result appears; so
\* Len(verified_results) <= Len(search_results).
C1_VerifiedSubset ==
    outcome = "success" =>
        LET sr == state.search_results
            vr == state.verified_results
            kept == {i \in 1..Len(sr) :
                        sr[i].claimed_page \in PageNumbers /\ AnsweredValid(i)}
        IN  /\ Len(vr) <= Len(sr)
            /\ Len(vr) = Cardinality(kept)
            /\ \A j \in 1..Len(vr) : \E i \in kept :
                  /\ vr[j].content = sr[i].content
                  /\ vr[j].source = "Page " \o ToString(sr[i].claimed_page)
            /\ \A i \in (1..Len(sr)) \ kept :
                  \A j \in 1..Len(vr) : vr[j].content # sr[i].content

\* A successful run that kept one result and dropped another.
C1_Witness ==
    /\ outcome = "success"
    /\ Len(state.verified_results) = 1
    /\ Len(state.search_results) = 2
    /\ \E i \in 1..2 : tasks[i].called /\ tasks[i].resp.kind = "json"
                       /\ ~tasks[i].resp.data.valid

\* C2: search_results, once written, holds at most 10 entries.
C2_AtMostTopK ==
    "search_results" \in DOMAIN state => Len(state.search_results) <= TopK

\* C3: the nodes start in the order of the chain, each at most once; a node
\* starts only when the node before it has returned its update; once a node
\* has raised, no node starts.
C3_LinearOrder ==
    /\ [](/\ Len(started) <= Len(Chain)
          /\ started = SubSeq(Chain, 1, Len(started))
          /\ \A i \in 2..Len(started) : Completed(started[i - 1])
          /\ outcome = "aborted" => started # <<>> /\ pc = started[Len(started)]
                                    /\ ~Completed(pc))
    /\ [][outcome = "aborted" => started' = started /\ outcome' = "aborted"]_vars

\* A run that started all five nodes in turn and reached END.
C3_Witness == started = Chain /\ outcome = "success"

FanOutNodes == {"summarize_page", "verify_results"}

\* Task k of the batch failed: its llm.ainvoke raised or its answer did not parse.
TaskFailed(k) == tasks[k].called /\ tasks[k].resp.kind \in {"raise", "garbage"}

\* What verify returns for search result i, given the answer recorded for it.
ExpectedPoint(i) ==
    LET result == state.search_results[i] IN
    IF result.claimed_page \in PageNumbers /\ AnsweredValid(i)
    THEN [content |-> result.content,
          source |-> "Page " \o ToString(result.claimed_page),
          explanation |-> tasks[i].resp.data.explanation]
    ELSE None

GatherOf(n) == {i \in 1..Len(gathers) : gathers[i].node = n}

\* C4 as claimed: in a fan-out batch (summarize_page, verify_results) a failed
\* task, a failed llm.ainvoke included, does not abort the batch, and the
\* gather returns one slot per task with None at the failed index.
C4_FanOutIsolation ==
    \A n \in FanOutNodes :
        (Batch(n) /\ \E k \in 1..Len(tasks) : TaskFailed(k)) =>
            /\ outcome # "aborted"
            /\ \A g \in GatherOf(n) :
                  /\ Len(gathers[g].slots) = Len(tasks)
                  /\ \A k \in 1..Len(tasks) : TaskFailed(k) => gathers[g].slots[k] = None

\* C4 as amended: in verify_results a task whose answer does not parse leaves
\* the batch running, and the gather returns one slot per search result, None
\* for a dropped result and the record of result i at index i otherwise; the
\* batch is aborted only by a raising llm.ainvoke.  In summarize_page every
\* failed task aborts the batch: nothing is gathered.
C4_VerifyIsolation ==
    /\ Batch("verify_results") =>
          /\ outcome = "aborted" /\ tasks # <<>> =>
                \E k \in 1..Len(tasks) : tasks[k].called /\ tasks[k].resp.kind = "raise"
          /\ \A g \in GatherOf("verify_results") :
                /\ Len(gathers[g].slots) = Len(state.search_results)
                /\ \A i \in 1..Len(tasks) : gathers[g].slots[i] = ExpectedPoint(i)
    /\ (Batch("summarize_page") /\ \E k \in 1..Len(tasks) : TaskFailed(k)) =>
          outcome = "aborted" /\ GatherOf("summarize_page") = {}

\* A gathered verify batch of two: the first answer did not parse, the second is kept.
C4_Witness ==
    /\ Batch("verify_results")
    /\ GatherOf("verify_results") # {}
    /\ Len(tasks) = 2
    /\ tasks[1].called /\ tasks[1].resp.kind = "garbage"
    /\ \A g \in GatherOf("verify_results") :
          gathers[g].slots[1] = None /\ gathers[g].slots[2] # None

\* C5: in verify_results a search result whose claimed page was not extracted
\* gets no llm call and the slot None, and never is what aborts the batch;
\* in a successful run the other results are verified.
C5_MissingPageDropped ==
    (Batch("verify_results") /\ tasks # <<>>) =>
        LET sr == state.search_results
            missing == {i \in 1..Len(sr) : sr[i].claimed_page \notin PageNumbers}
        IN  /\ \A i \in missing :
                  /\ ~tasks[i].called
                  /\ tasks[i].st = "returned"
                  /\ tasks[i].val = None
            /\ llm_calls["verify_results"] = Len(sr) - Cardinality(missing)
            /\ outcome = "aborted" =>
                  \E k \in (1..Len(sr)) \ missing : tasks[k].resp.kind = "raise"
            /\ outcome = "success" =>
                  /\ \A i \in missing : \A j \in 1..Len(state.verified_results) :
                        state.verified_results[j].content # sr[i].content
                  /\ \A i \in (1..Len(sr)) \ missing :
                        AnsweredValid(i) =>
                            \E j \in 1..Len(state.verified_results) :
                                state.verified_results[j] = ExpectedPoint(i)

\* A successful run whose first result claimed a missing page and whose second was kept.
C5_Witness ==
    /\ outcome = "success"
    /\ Len(state.search_results) = 2
    /\ state.search_results[1].claimed_page \notin PageNumbers
    /\ ~tasks[1].called
    /\ state.verified_results = <<ExpectedPoint(2)>>
    /\ ExpectedPoint(2) # None

\* Every verification answer of the batch failed to parse or said valid == false.
NoneValid ==
    /\ \A i \in 1..Len(tasks) :
          tasks[i].called =>
              \/ tasks[i].resp.kind = "garbage"
              \/ tasks[i].resp.kind = "json" /\ ~tasks[i].resp.data.valid
    /\ \E i \in 1..Len(tasks) : tasks[i].called

\* C6: a non-empty verify batch whose answers all fail to parse or say
\* valid == false does not abort; the run succeeds with verified_results
\* empty and the assistant message "Verified Results:\n\n".
C6_AllDropped ==
    (Batch("verify_results") /\ tasks # <<>> /\ NoneValid) =>
        /\ outcome # "aborted"
        /\ outcome = "success" =>
              /\ state.verified_results = <<>>
              /\ Len(state.messages) = 2
              /\ state.messages[2] =
                    [role |-> "assistant", content |-> "Verified Results:\n\n"]

\* A successful run of two results whose answers both failed to parse.
C6_Witness ==
    /\ outcome = "success"
    /\ Len(tasks) = 2
    /\ \A i \in 1..2 : tasks[i].called /\ tasks[i].resp.kind = "garbage"
    /\ state.verified_results = <<>>

\* C7: with pdf_path empty after process_input, the run aborts in process_pdf
\* before pdf_tool.invoke; extracted_pages, summarized_pages, search_results
\* and verified_results are never populated and no message is appended.
C7_EmptyPathAborts ==
    (Completed("process_input") /\ state.pdf_path = "") =>
        /\ pdf_calls = 0
        /\ pc = "process_pdf"
        /\ HasStarted("process_pdf") => outcome = "aborted" /\ error = "PDF path not found."
        /\ state.extracted_pages = <<>>
        /\ state.summarized_pages = <<>>
        /\ "search_results" \notin DOMAIN state
        /\ "verified_results" \notin DOMAIN state
        /\ Len(state.messages) = 1
        /\ \A k \in Keys \ {"pdf_path", "query"} : writes[k] = <<>>

\* The run aborted in process_pdf on an empty path.
C7_Witness ==
    /\ Completed("process_input")
    /\ state.pdf_path = ""
    /\ HasStarted("process_pdf")
    /\ outcome = "aborted"

\* C8 as claimed: process_pdf never returns zero pages (it raises instead), and
\* summarize_page never starts on zero pages.
C8_ZeroPagesFailExtract ==
    /\ Completed("process_pdf") => state.extracted_pages # <<>>
    /\ HasStarted("summarize_page") => state.extracted_pages # <<>>

\* C8 as amended: when the tool reports zero pages, process_pdf returns an
\* empty extracted_pages; summarize_page then issues no llm call and returns an
\* empty summarized_pages; search_summaries raises at its guards before any
\* llm call, and verify_results never starts.
C8_ZeroPagesAbortInSearch ==
    (Completed("process_pdf") /\ state.extracted_pages = <<>>) =>
        /\ pdf_calls = 1
        /\ llm_calls["summarize_page"] = 0
        /\ llm_calls["search_summaries"] = 0
        /\ Completed("summarize_page") => state.summarized_pages = <<>>
        /\ HasStarted("search_summaries") =>
              /\ outcome = "aborted"
              /\ pc = "search_summaries"
              /\ error = IF state.query = "" THEN "Query not found."
                         ELSE "Summaries not found."
        /\ ~HasStarted("verify_results")
        /\ outcome # "success"

\* The tool reported zero pages and the run aborted in search_summaries.
C8_Witness ==
    /\ Completed("process_pdf")
    /\ pdf_calls = 1
    /\ state.extracted_pages = <<>>
    /\ Completed("summarize_page")
    /\ pc = "search_summaries"
    /\ error = "Summaries not found."

\* C9: when the answer for one page does not parse, summarize_page raises:
\* summarized_pages is never written, and search_summaries and verify_results
\* never start.
C9_SummarizeAllOrNothing ==
    (Batch("summarize_page") /\ \E k \in 1..Len(tasks) : tasks[k].resp.kind = "garbage") =>
        /\ outcome = "aborted"
        /\ pc = "summarize_page"
        /\ writes["summarized_pages"] = <<>>
        /\ state.summarized_pages = <<>>
        /\ ~HasStarted("search_summaries")
        /\ ~HasStarted("verify_results")

\* Of two pages one answer parsed and the other did not.
C9_Witness ==
    /\ Batch("summarize_page")
    /\ Len(tasks) = 2
    /\ \E i, j \in 1..2 : /\ tasks[i].st = "returned" /\ tasks[i].val # None
                          /\ tasks[j].resp.kind = "garbage"
    /\ outcome = "aborted"

\* The node that owns each key of State.
Owner(k) ==
    CASE k \in {"pdf_path", "query"} -> "process_input"
      [] k = "extracted_pages" -> "process_pdf"
      [] k = "summarized_pages" -> "summarize_page"
      [] k = "search_results" -> "search_summaries"
      [] k \in {"verified_results", "messages"} -> "verify_results"

IsPrefix(s, t) == Len(s) <= Len(t) /\ SubSeq(t, 1, Len(s)) = s

\* C10: every step that writes a key of State, or changes its value, is the
\* return of the node that owns the key, and is the first write of that key;
\* no key is removed; messages only grows at its end.
C10_SingleWriter ==
    [][/\ \A k \in Keys :
            \/ /\ writes'[k] = writes[k]
               /\ k \in DOMAIN state <=> k \in DOMAIN state'
               /\ k \in DOMAIN state => state'[k] = state[k]
            \/ /\ pc = Owner(k)
               /\ writes[k] = <<>>
               /\ writes'[k] = <<pc>>
               /\ k \in DOMAIN state'
       /\ IsPrefix(state.messages, state'.messages)]_vars

\* A successful run: every key has been written.
C10_Witness ==
    /\ outcome = "success"
    /\ \A k \in Keys : Len(writes[k]) = 1
    /\ Len(state.messages) = 2

\* C11: every summary written by summarize_page carries the page number of the
\* extracted page it was made from.
C11_SummaryPageNumber ==
    Completed("summarize_page") =>
        /\ Len(state.summarized_pages) = Len(state.extracted_pages)
        /\ \A i \in 1..Len(state.summarized_pages) :
              /\ state.summarized_pages[i].page_number \in PageNumbers
              /\ state.summarized_pages[i].page_number = state.extracted_pages[i].page_number

\* The search result that verified record r was made from (contents are distinct).
ResultIndex(r) ==
    CHOOSE i \in 1..Len(state.search_results) : state.search_results[i].content = r.content

\* C12: whatever the order in which the coroutines finish, the i-th summary is
\* the parsed answer to the call for the i-th extracted page, and
\* verified_results lists the kept records in the order of their search results.
C12_FanInOrder ==
    /\ (Batch("summarize_page") /\ Completed("summarize_page")) =>
          /\ Len(state.summarized_pages) = Len(state.extracted_pages)
          /\ \A i \in 1..Len(state.summarized_pages) :
                /\ tasks[i].resp.kind = "json"
                /\ state.summarized_pages[i].page_number = tasks[i].resp.data.page_number
                /\ state.summarized_pages[i].heading_sentence =
                      tasks[i].resp.data.heading_sentence
                /\ state.summarized_pages[i].key_points = tasks[i].resp.data.key_points
    /\ outcome = "success" =>
          LET vr == state.verified_results IN
          /\ \A j \in 1..Len(vr) : vr[j] = ExpectedPoint(ResultIndex(vr[j]))
          /\ \A j \in 1..(Len(vr) - 1) : ResultIndex(vr[j]) < ResultIndex(vr[j + 1])

\* A successful run that kept two results, the second verified before the first.
C12_Witness ==
    /\ outcome = "success"
    /\ Len(state.verified_results) = 2
    /\ order = <<2, 1>>

Cancelled == {i \in 1..Len(tasks) : tasks[i].st = "cancelled"}

\* C13 as claimed: no dispatched call is ever cancelled, also not when a
\* sibling of its batch has failed and the node has raised.
C13_NeverCancelled == Cancelled = {}

\* C13 as amended: while its node is running no dispatched call is cancelled,
\* and in a successful run every dispatched call has returned; a call is
\* cancelled only in a fan-out batch after a sibling has raised and aborted the
\* run, and then it never gets an answer.
C13_CancelledOnlyAfterAbort ==
    /\ Cancelled # {} =>
          /\ outcome = "aborted"
          /\ pc \in FanOutNodes /\ Batch(pc)
          /\ \E k \in 1..Len(tasks) : tasks[k].st = "raised"
          /\ \A i \in Cancelled : tasks[i].called /\ tasks[i].resp = NoAnswer
    /\ outcome = "success" => \A i \in 1..Len(tasks) : tasks[i].st = "returned"

\* Of two summarize calls the first raised and the second was cancelled.
C13_Witness ==
    /\ Batch("summarize_page")
    /\ Len(tasks) = 2
    /\ tasks[1].st = "raised"
    /\ tasks[2].st = "cancelled"

\* The single call of node n was answered with text that does not parse.
SingleCallUnparsed(n) == Batch(n) /\ tasks # <<>> /\ tasks[1].resp.kind = "garbage"

\* C14: in process_input and search_summaries an answer that does not parse
\* aborts the run after that one call and the node writes none of its keys;
\* process_input raises before any call when there is no message, and
\* search_summaries raises before any call when query or summaries are empty.
C14_SingleCallFatal ==
    /\ SingleCallUnparsed("process_input") =>
          /\ outcome = "aborted" /\ pc = "process_input"
          /\ error = "Failed to extract PDF path and query."
          /\ llm_calls["process_input"] = 1
          /\ writes["pdf_path"] = <<>> /\ writes["query"] = <<>>
          /\ state.pdf_path = "" /\ state.query = ""
    /\ SingleCallUnparsed("search_summaries") =>
          /\ outcome = "aborted" /\ pc = "search_summaries"
          /\ error = "Failed to parse search results."
          /\ llm_calls["search_summaries"] = 1
          /\ writes["search_results"] = <<>>
          /\ "search_results" \notin DOMAIN state
    /\ (HasStarted("process_input") /\ state.messages = <<>>) =>
          /\ outcome = "aborted" /\ pc = "process_input"
          /\ error = "No input provided."
          /\ \A n \in Nodes : llm_calls[n] = 0
    /\ (HasStarted("search_summaries")
            /\ (state.query = "" \/ state.summarized_pages = <<>>)) =>
          /\ outcome = "aborted" /\ pc = "search_summaries"
          /\ error \in {"Query not found.", "Summaries not found."}
          /\ llm_calls["search_summaries"] = 0
          /\ "search_results" \notin DOMAIN state

\* The graph was started without a message and process_input raised.
C14_Witness ==
    /\ state.messages = <<>>
    /\ started = <<"process_input">>
    /\ outcome = "aborted"

\* The search results whose claimed page was extracted.
WithPage ==
    LET sr == get(state, "search_results", <<>>) IN
    {i \in 1..Len(sr) : sr[i].claimed_page \in PageNumbers}

\* C15: no call is retried.  At every moment of every run process_input has
\* issued at most one llm call, summarize_page at most one per extracted page,
\* search_summaries at most one, and verify_results at most one per search
\* result whose claimed page exists; the calls of the node started last are
\* those of its coroutines, one each.
C15_NoRetry ==
    /\ llm_calls["process_input"] <= 1
    /\ llm_calls["process_pdf"] = 0
    /\ llm_calls["summarize_page"] <= Len(state.extracted_pages)
    /\ llm_calls["search_summaries"] <= 1
    /\ llm_calls["verify_results"] <= Cardinality(WithPage)
    /\ \A n \in Nodes : Batch(n) => llm_calls[n] = Cardinality(Called(tasks))
    /\ Batch("verify_results") => \A i \in Called(tasks) : i \in WithPage

\* verify_results raised after one call: of two results one claimed a missing
\* page and the call for the other raised.
C15_Witness ==
    /\ Batch("verify_results")
    /\ outcome = "aborted"
    /\ Len(tasks) = 2
    /\ Cardinality(WithPage) = 1
    /\ llm_calls["verify_results"] = 1
    /\ llm_calls["search_summaries"] = 1
    /\ llm_calls["process_input"] = 1

\* "<content> (Source: Page <page>)" for verified record r, the page taken
\* from the search result r was made from.
EntryOf(r) ==
    r.content \o " (Source: Page "
        \o ToString(state.search_results[ResultIndex(r)].claimed_page) \o ")"

\* The first n entries, joined by blank lines.
RECURSIVE EntriesUpTo(_, _)
EntriesUpTo(vr, n) ==
    IF n = 0 THEN ""
    ELSE IF n = 1 THEN EntryOf(vr[1])
    ELSE EntriesUpTo(vr, n - 1) \o "\n\n" \o EntryOf(vr[n])

\* C16: an assistant message is appended only by verify_results when it
\* returns, once; its content is "Verified Results:\n\n" followed by one entry
\* per record of verified_results, in order, joined by blank lines.  Until
\* then, and in every run that aborts, messages holds the user message alone.
C16_AssistantMessage ==
    /\ outcome = "success" =>
          /\ Len(state.messages) = 2
          /\ state.messages[1].role = "user"
          /\ state.messages[2].role = "assistant"
          /\ state.messages[2].content =
                "Verified Results:\n\n"
                    \o EntriesUpTo(state.verified_results, Len(state.verified_results))
          /\ writes["messages"] = <<"verify_results">>
    /\ outcome # "success" =>
          /\ Len(state.messages) = 1
          /\ state.messages[1].role = "user"
          /\ state.messages[1].content \in UserInputs
          /\ writes["messages"] = <<>>

\* A successful run whose message lists two records.
C16_Witness ==
    /\ outcome = "success"
    /\ Len(state.verified_results) = 2
    /\ Len(state.messages) = 2

\* C17: when search_summaries returns an empty list, verify_results raises
\* "No search results to verify." before any verification call:
\* verified_results is not written and no assistant message is appended.
C17_EmptySearchAborts ==
    (Completed("search_summaries") /\ state.search_results = <<>>) =>
        /\ pc = "verify_results"
        /\ outcome # "success"
        /\ llm_calls["verify_results"] = 0
        /\ \A g \in 1..Len(gathers) : gathers[g].node # "verify_results"
        /\ "verified_results" \notin DOMAIN state
        /\ writes["verified_results"] = <<>> /\ writes["messages"] = <<>>
        /\ Len(state.messages) = 1
        /\ HasStarted("verify_results") =>
              /\ outcome = "aborted"
              /\ error = "No search results to verify."
              /\ tasks = <<>>

\* The search answer parsed to an empty list and verify_results raised.
C17_Witness ==
    /\ Completed("search_summaries")
    /\ state.search_results = <<>>
    /\ HasStarted("verify_results")
    /\ outcome = "aborted"

\* Some summary written by summarize_page has fewer than three key points.
FewKeyPoints ==
    \E i \in 1..Len(state.summarized_pages) : Len(state.summarized_pages[i].key_points) < 3

\* C18: summarize_page writes a parsed summary with the key points the answer
\* has, however many; when some written summary has fewer than three,
\* search_summaries raises before its llm call and search_results is not
\* written.
C18_FewKeyPointsAbort ==
    /\ (Batch("summarize_page") /\ Completed("summarize_page")) =>
          \A i \in 1..Len(tasks) :
              state.summarized_pages[i].key_points = tasks[i].resp.data.key_points
    /\ (Completed("summarize_page") /\ FewKeyPoints) =>
          /\ pc = "search_summaries"
          /\ outcome # "success"
          /\ llm_calls["search_summaries"] = 0
          /\ "search_results" \notin DOMAIN state
          /\ HasStarted("search_summaries") =>
                /\ outcome = "aborted"
                /\ error = IF state.query = "" THEN "Query not found."
                           ELSE "IndexError: list index out of range"

\* A summary with two key points was written and search_summaries raised on it.
C18_Witness ==
    /\ Completed("summarize_page")
    /\ FewKeyPoints
    /\ HasStarted("search_summaries")
    /\ error = "IndexError: list index out of range"

\* The two ways a run ends.
Emitted ==
    /\ pc = "END" /\ outcome = "success"
    /\ state.messages[Len(state.messages)].role = "assistant"
    /\ "verified_results" \in DOMAIN state
FatalAbort == pc \in Nodes /\ outcome = "aborted" /\ error # ""

\* C19: every run ends, and stays, in exactly one of the two outcomes: the
\* verified results emitted as an assistant message, or a fatal abort; no run
\* waits for ever in a gather.
C19_Terminates ==
    /\ <>[](Emitted \/ FatalAbort)
    /\ [](~(Emitted /\ FatalAbort))
    /\ [](outcome = "running" => ~(Emitted \/ FatalAbort))

\* A run that emitted its results after a gather over a call and a coroutine
\* that returned without one.
C19_Witness ==
    /\ Emitted
    /\ Len(tasks) = 2
    /\ Cardinality(Called(tasks)) = 1

====
